---- MODULE Spec2Model ----
(***************************************************************************)
(* A model of src/src/App.jsx of the gear museum: the procedural spur-gear *)
(* outline built in GearGeom's useMemo, the per-frame callbacks of         *)
(* GearGeom, RackGeom and WormGeom, and the ten-entry catalog.             *)
(*                                                                         *)
(* Numbers are fixed-point integers.  Lengths, positions and angles are in *)
(* millionths (1.0 = 1000000), speeds in thousandths, times in             *)
(* milliseconds, so speed * delta is an angle in micro-radians.  The       *)
(* radius prop is in hundredths and the derived radii in thousandths, so   *)
(* that radius * 1.1, radius * 0.9 and radius * 0.2 are exact.             *)
(***************************************************************************)
EXTENDS Integers, Sequences, FiniteSets, TLC

VARIABLES
  \* ---- GearGeom's shape generator (useMemo, lines 22-48)
  teeth,         \* the teeth prop
  radius,        \* the radius prop, in hundredths
  pc,            \* position in the generator: "loop", "close", "hole", "done"
  i,             \* the loop counter
  angle,         \* the loop's local angle of the last iteration, micro-radians
  angleHalf,     \* the loop's local angleHalf of the last iteration
  currentPoint,  \* s.currentPoint
  curves,        \* s.curves: the line segments of the path
  holes,         \* s.holes
  \* ---- the scene and the frame loop
  scene,         \* the components rendered: solid id -> its props
  phase,         \* "new", "rendered" (callbacks registered), "committed"
  mesh,          \* meshRef.current of each solid: Null or its transform
  clock,         \* state.clock.elapsedTime, milliseconds
  delta,         \* the delta of the frame in progress
  pending,       \* the callbacks still to run in the frame in progress
  frames,        \* the frames begun so far
  frameStart,    \* history: mesh when the frame in progress began
  sumDelta,      \* history: per solid, the deltas its callback has applied
  calls          \* history: per solid, the callbacks run with the mesh set

shapeVars == <<teeth, radius, pc, i, angle, angleHalf, currentPoint, curves, holes>>
sceneVars ==
  <<scene, phase, mesh, clock, delta, pending, frames, frameStart, sumDelta, calls>>
vars == <<shapeVars, sceneVars>>

----------------------------------------------------------------------------
\* Bounds of the model.

MaxTeeth == 12
MaxRadius == 3
MaxFrames == 2

----------------------------------------------------------------------------
\* Math: PI, sin and cos in fixed point.

\* Math.PI in micro-radians.
Pi == 3141593

TwoPi == 2 * Pi

Abs(x) == IF x < 0 THEN -x ELSE x

\* sin on the first quadrant: r in 0..15708 ten-thousandths of a radian, the
\* result in ten-thousandths; the Taylor polynomial up to r^9.
SinQuadrant(r) ==
  LET t2 == (r * r) \div 10000
      t3 == (r * t2) \div 60000
      t5 == (t3 * t2) \div 200000
      t7 == (t5 * t2) \div 420000
      t9 == (t7 * t2) \div 720000
  IN r - t3 + t5 - t7 + t9

\* Math.sin of an angle in micro-radians, in ten-thousandths.
Sin(a) ==
  LET m == (a \div 100) % 62832
  IN IF m <= 15708 THEN SinQuadrant(m)
     ELSE IF m <= 31416 THEN SinQuadrant(31416 - m)
     ELSE IF m <= 47124 THEN -SinQuadrant(m - 31416)
     ELSE -SinQuadrant(62832 - m)

\* Math.cos of an angle in micro-radians, in ten-thousandths.
Cos(a) == Sin(a + 1570796)

----------------------------------------------------------------------------
\* GearGeom's shape generator.

\* An empty ref (meshRef.current before the mesh exists).
Null == [current |-> "undefined"]

\* new THREE.Vector2(x, y)
Vector2(x, y) == [x |-> x, y |-> y]

OuterRadius(r) == r * 11

\* innerRadius with the factor of outerRadius.
InnerRadiusAsOuter(r) == r * 11

InnerRadius(r) == r * 9
HoleRadius(r) == r * 2

\* (Math.cos(a) * r, Math.sin(a) * r)
PolarPoint(a, r) == Vector2((Cos(a) * r) \div 10000, (Sin(a) * r) \div 10000)

\* s.lineTo(x, y): a LineCurve from the current point to p, appended.
LineTo(cs, cur, p) == Append(cs, [v1 |-> cur, v2 |-> p])

LoopAngle(k, n) == (k * TwoPi) \div n
LoopAngleHalf(k, n) == (LoopAngle(k, n) + LoopAngle(k + 1, n)) \div 2

\* The four lineTo calls with the two mid-angle points exchanged.
ToothPointsSwapped(k, n, r) ==
  << PolarPoint(LoopAngle(k, n), InnerRadius(r)),
     PolarPoint(LoopAngle(k, n), OuterRadius(r)),
     PolarPoint(LoopAngleHalf(k, n), InnerRadius(r)),
     PolarPoint(LoopAngleHalf(k, n), OuterRadius(r)) >>

\* The four lineTo calls of one iteration, in the order of the code.
ToothPoints(k, n, r) ==
  << PolarPoint(LoopAngle(k, n), InnerRadius(r)),
     PolarPoint(LoopAngle(k, n), OuterRadius(r)),
     PolarPoint(LoopAngleHalf(k, n), OuterRadius(r)),
     PolarPoint(LoopAngleHalf(k, n), InnerRadius(r)) >>

\* One iteration of the for loop.
Tooth ==
  /\ pc = "loop"
  /\ i < teeth
  /\ LET pts == ToothPoints(i, teeth, radius)
         c1 == LineTo(curves, currentPoint, pts[1])
         c2 == LineTo(c1, pts[1], pts[2])
         c3 == LineTo(c2, pts[2], pts[3])
         c4 == LineTo(c3, pts[3], pts[4])
     IN /\ curves' = c4
        /\ currentPoint' = pts[4]
  /\ angle' = LoopAngle(i, teeth)
  /\ angleHalf' = LoopAngleHalf(i, teeth)
  /\ i' = i + 1
  /\ UNCHANGED <<teeth, radius, pc, holes>>
  /\ UNCHANGED sceneVars

\* The loop's exit test fails: on to s.closePath().
LoopExit ==
  /\ pc = "loop"
  /\ ~(i < teeth)
  /\ pc' = "close"
  /\ UNCHANGED <<teeth, radius, i, angle, angleHalf, currentPoint, curves, holes>>
  /\ UNCHANGED sceneVars

\* s.closePath(): a segment from the end of the last curve back to the start
\* of the first one, unless the two points are equal.
ClosedCurves(cs) ==
  LET startPoint == cs[1].v1
      endPoint == cs[Len(cs)].v2
  IN IF startPoint # endPoint
     THEN Append(cs, [v1 |-> endPoint, v2 |-> startPoint])
     ELSE cs

ClosePath ==
  /\ pc = "close"
  /\ curves' = ClosedCurves(curves)
  /\ pc' = "hole"
  /\ UNCHANGED <<teeth, radius, i, angle, angleHalf, currentPoint, holes>>
  /\ UNCHANGED sceneVars

\* hole.absarc(0, 0, holeRadius, 0, Math.PI * 2, false)
HolePath(r) ==
  [aX |-> 0, aY |-> 0, xRadius |-> HoleRadius(r), yRadius |-> HoleRadius(r),
   aStartAngle |-> 0, aEndAngle |-> TwoPi, aClockwise |-> FALSE]

CenterHole ==
  /\ pc = "hole"
  /\ holes' = Append(holes, HolePath(radius))
  /\ pc' = "done"
  /\ UNCHANGED <<teeth, radius, i, angle, angleHalf, currentPoint, curves>>
  /\ UNCHANGED sceneVars

Radii == {50 * k : k \in 1..MaxRadius}

\* new THREE.Shape(): no curve, the current point at the origin.
NewShape ==
  /\ teeth \in 1..MaxTeeth
  /\ radius \in Radii
  /\ pc = "loop"
  /\ i = 0
  /\ angle = 0
  /\ angleHalf = 0
  /\ currentPoint = Vector2(0, 0)
  /\ curves = <<>>
  /\ holes = <<>>

IdleScene ==
  /\ scene = <<>>
  /\ phase = "new"
  /\ mesh = <<>>
  /\ clock = 0
  /\ delta = 0
  /\ pending = {}
  /\ frames = 0
  /\ frameStart = <<>>
  /\ sumDelta = <<>>
  /\ calls = <<>>

NextShape == Tooth \/ LoopExit \/ ClosePath \/ CenterHole

\* The generator run on its own, for any teeth and radius props.
InitShape == NewShape /\ IdleScene

SpecShape == InitShape /\ [][NextShape]_vars

----------------------------------------------------------------------------
\* The components and the catalog.

Vector3(x, y, z) == [x |-> x, y |-> y, z |-> z]

Origin == Vector3(0, 0, 0)

\* <GearGeom position rotation speed axis />: teeth = 12 and radius = 1 are
\* the defaults every use keeps.
GearGeom(position, rotation, speed, axis) ==
  [kind |-> "GearGeom", position |-> position, rotation |-> rotation,
   speed |-> speed, axis |-> axis, teeth |-> 12, radius |-> 100]

\* <RackGeom speed />: the mesh is placed at [0, -1.1, 0].
RackGeom(speed) ==
  [kind |-> "RackGeom", position |-> Vector3(0, -1100000, 0), rotation |-> Origin,
   speed |-> speed, axis |-> "x", teeth |-> 0, radius |-> 0]

\* <WormGeom speed />: the mesh is placed at [0, 1.2, 0], rotated PI/2 on x.
WormGeom(speed) ==
  [kind |-> "WormGeom", position |-> Vector3(0, 1200000, 0),
   rotation |-> Vector3(Pi \div 2, 0, 0),
   speed |-> speed, axis |-> "z", teeth |-> 0, radius |-> 0]

\* A plain <mesh position rotation />: no ref, no useFrame.
Mesh(position, rotation) ==
  [kind |-> "mesh", position |-> position, rotation |-> rotation,
   speed |-> 0, axis |-> "none", teeth |-> 0, radius |-> 0]

SystemSpur ==
  << GearGeom(Vector3(-1050000, 0, 0), Origin, 1000, "y"),
     GearGeom(Vector3(1050000, 0, 0), Vector3(0, 0, Pi \div 12), -1000, "y") >>

SystemRackPinion ==
  << GearGeom(Origin, Origin, 2000, "y"),
     RackGeom(1000) >>

SystemBevel ==
  << GearGeom(Vector3(0, -900000, 0), Vector3(Pi \div 2, 0, 0), 1000, "z"),
     GearGeom(Vector3(0, 900000, 0), Vector3(-(Pi \div 2), 0, 0), -1000, "z"),
     Mesh(Origin, Vector3(0, 0, Pi \div 2)) >>

SystemWorm ==
  << WormGeom(2000),
     GearGeom(Vector3(0, -500000, 0), Origin, 100, "y") >>

\* The Helical system, were it built from two gears like the Spur system.
SystemHelicalGears ==
  << GearGeom(Origin, Vector3(200000, 0, 0), 1000, "y"),
     GearGeom(Vector3(1200000, 0, 0), Vector3(-200000, 0, 0), -1000, "y") >>

SystemHelical ==
  << Mesh(Origin, Vector3(200000, 0, 0)),
     Mesh(Vector3(1200000, 0, 0), Vector3(-200000, 0, 0)) >>

SystemGeneric ==
  << GearGeom(Origin, Origin, 2000, "y") >>

\* gearSystems: the Component of each entry, by id.
gearSystems ==
  << SystemSpur, SystemRackPinion, SystemWorm, SystemBevel, SystemHelical,
     SystemGeneric, SystemGeneric, SystemGeneric, SystemGeneric, SystemGeneric >>

\* gearSystems.map(...) in App: every entry's Component, a solid being named
\* <<entry id, index in its System>>.
AppScene ==
  LET ids == {<<e, k>> : e \in 1..Len(gearSystems), k \in 1..3}
      used == {id \in ids : id[2] <= Len(gearSystems[id[1]])}
  IN [id \in used |-> gearSystems[id[1]][id[2]]]

----------------------------------------------------------------------------
\* The frame callbacks.

\* GearGeom's callback with "=" written for "+=".
GearFrameAssign(m, p, d) ==
  IF m = Null THEN m
  ELSE LET my == IF p.axis = "y" THEN [m EXCEPT !.rotation.y = p.speed * d] ELSE m
           mx == IF p.axis = "x" THEN [my EXCEPT !.rotation.x = p.speed * d] ELSE my
           mz == IF p.axis = "z" THEN [mx EXCEPT !.rotation.z = p.speed * d] ELSE mx
       IN mz

\* GearGeom's callback with the test of the axis prop left out on y.
GearFrameAnyAxis(m, p, d) ==
  IF m = Null THEN m
  ELSE LET my == [m EXCEPT !.rotation.y = @ + p.speed * d]
           mx == IF p.axis = "x" THEN [my EXCEPT !.rotation.x = @ + p.speed * d] ELSE my
           mz == IF p.axis = "z" THEN [mx EXCEPT !.rotation.z = @ + p.speed * d] ELSE mx
       IN mz

\* GearGeom's useFrame callback on meshRef.current = m.
GearFrame(m, p, d) ==
  IF m = Null THEN m
  ELSE LET my == IF p.axis = "y" THEN [m EXCEPT !.rotation.y = @ + p.speed * d] ELSE m
           mx == IF p.axis = "x" THEN [my EXCEPT !.rotation.x = @ + p.speed * d] ELSE my
           mz == IF p.axis = "z" THEN [mx EXCEPT !.rotation.z = @ + p.speed * d] ELSE mx
       IN mz

\* RackGeom's callback integrating the sine instead of assigning it.
RackFrameAccumulate(m, p, t) ==
  IF m = Null THEN m
  ELSE [m EXCEPT !.position.x = @ + Sin(t * p.speed) * 150]

\* RackGeom's useFrame callback: position.x = sin(elapsedTime * speed) * 1.5.
RackFrame(m, p, t) ==
  IF m = Null THEN m
  ELSE [m EXCEPT !.position.x = Sin(t * p.speed) * 150]

\* WormGeom's useFrame callback.
WormFrame(m, p, d) ==
  IF m = Null THEN m
  ELSE [m EXCEPT !.rotation.z = @ + p.speed * d]

\* The callback a solid registered, run with delta d at elapsed time t.
FrameCallback(m, p, d, t) ==
  CASE p.kind = "GearGeom" -> GearFrame(m, p, d)
    [] p.kind = "RackGeom" -> RackFrame(m, p, t)
    [] p.kind = "WormGeom" -> WormFrame(m, p, d)
    [] OTHER -> m

\* The solids whose component calls useFrame.
Subscribers == {s \in DOMAIN scene : scene[s].kind # "mesh"}

\* The components' functions run: useRef() makes each ref, still empty, and
\* useFrame registers each callback.
Render ==
  /\ phase = "new"
  /\ pending = {}
  /\ phase' = "rendered"
  /\ mesh' = [s \in DOMAIN scene |-> Null]
  /\ sumDelta' = [s \in DOMAIN scene |-> 0]
  /\ calls' = [s \in DOMAIN scene |-> 0]
  /\ UNCHANGED <<scene, clock, delta, pending, frames, frameStart>>
  /\ UNCHANGED shapeVars

\* <mesh ref={meshRef} position rotation>: the mesh a component returned.
InitialTransform(p) == [position |-> p.position, rotation |-> p.rotation]

\* The meshes are created from their props and the refs are set.
Commit ==
  /\ phase = "rendered"
  /\ pending = {}
  /\ phase' = "committed"
  /\ mesh' = [s \in DOMAIN scene |-> InitialTransform(scene[s])]
  /\ UNCHANGED <<scene, clock, delta, pending, frames, frameStart, sumDelta, calls>>
  /\ UNCHANGED shapeVars

\* The deltas a frame may carry, in milliseconds.
Deltas == {0, 1000}

\* The frame loop begins a frame: the clock advances by the frame's delta and
\* every registered callback is due.  A frame may come once the callbacks
\* are registered, whether or not the refs are set yet: that is the case the
\* callbacks' test of meshRef.current is there for.
BeginFrame(d) ==
  /\ phase # "new"
  /\ pending = {}
  /\ frames < MaxFrames
  /\ frames' = frames + 1
  /\ clock' = clock + d
  /\ delta' = d
  /\ pending' = Subscribers
  /\ frameStart' = mesh
  /\ UNCHANGED <<scene, phase, mesh, sumDelta, calls>>
  /\ UNCHANGED shapeVars

\* The callback of solid s, were the ref shared by the solids of its System.
UseFrameSharedRef(s) ==
  /\ s \in pending
  /\ pending' = pending \ {s}
  /\ mesh' = [o \in DOMAIN mesh |->
               IF o[1] = s[1] /\ o \in Subscribers
               THEN FrameCallback(mesh[o], scene[s], delta, clock)
               ELSE mesh[o]]
  /\ sumDelta' = [sumDelta EXCEPT ![s] = IF mesh[s] = Null THEN @ ELSE @ + delta]
  /\ calls' = [calls EXCEPT ![s] = IF mesh[s] = Null THEN @ ELSE @ + 1]
  /\ UNCHANGED <<scene, phase, clock, delta, frames, frameStart>>
  /\ UNCHANGED shapeVars

\* The frame loop runs the callback of solid s.
UseFrame(s) ==
  /\ s \in pending
  /\ pending' = pending \ {s}
  /\ mesh' = [mesh EXCEPT ![s] = FrameCallback(mesh[s], scene[s], delta, clock)]
  /\ sumDelta' = [sumDelta EXCEPT ![s] = IF mesh[s] = Null THEN @ ELSE @ + delta]
  /\ calls' = [calls EXCEPT ![s] = IF mesh[s] = Null THEN @ ELSE @ + 1]
  /\ UNCHANGED <<scene, phase, clock, delta, frames, frameStart>>
  /\ UNCHANGED shapeVars

IdleShape ==
  /\ teeth = 12
  /\ radius = 100
  /\ pc = "done"
  /\ i = 0
  /\ angle = 0
  /\ angleHalf = 0
  /\ currentPoint = Vector2(0, 0)
  /\ curves = <<>>
  /\ holes = <<>>

InitScene(sc) ==
  /\ scene = sc
  /\ phase = "new"
  /\ mesh = <<>>
  /\ clock = 0
  /\ delta = 0
  /\ pending = {}
  /\ frames = 0
  /\ frameStart = <<>>
  /\ sumDelta = <<>>
  /\ calls = <<>>

Next ==
  \/ Render
  \/ Commit
  \/ \E d \in Deltas : BeginFrame(d)
  \/ \E s \in DOMAIN scene : UseFrame(s)

\* The App: the ten catalog entries.
Init == IdleShape /\ InitScene(AppScene)

Spec == Init /\ [][Next]_vars

\* One component on its own, with props drawn from PropSpace.
Speeds == {-1000, 100, 2000}
Rotations == {Origin, Vector3(0, 0, Pi \div 12), Vector3(Pi \div 2, 0, 0)}
Positions == {Origin, Vector3(1050000, 0, 0)}
PropSpace ==
  {GearGeom(q, r, v, a) :
     q \in Positions, r \in Rotations, v \in Speeds, a \in {"x", "y", "z", "w"}}
    \cup {RackGeom(v) : v \in Speeds \cup {1000}}
    \cup {WormGeom(v) : v \in Speeds}

InitComponent == IdleShape /\ \E p \in PropSpace : InitScene(<<0, 1>> :> p)

SpecComponent == InitComponent /\ [][Next]_vars

----------------------------------------------------------------------------
\* Properties of the shape generator.

\* Every endpoint of a segment of the path.
BoundaryVertices ==
  {curves[k].v1 : k \in 1..Len(curves)} \cup {curves[k].v2 : k \in 1..Len(curves)}

Dist2(p) == p.x * p.x + p.y * p.y

\* p is at distance r from the origin, within 1% (2% of the square).
OnCircle(p, r) == Abs(Dist2(p) - r * r) * 50 <= r * r

\* p and q coincide within two thousandths on each coordinate.
Near(p, q) == Abs(p.x - q.x) <= 2 /\ Abs(p.y - q.y) <= 2

\* The angles the specification gives for sector k, computed on their own.
SectorAngle(k, n) == (k * TwoPi) \div n
SectorMid(k, n) == ((2 * k + 1) * TwoPi) \div (2 * n)

ShapeBuilt == pc = "done" /\ teeth >= 3

\* C1 (as claimed): the finished outline has exactly 4 * teeth boundary
\* vertices and exactly one hole, the circle of holeRadius about the origin.
C1_VertexCount ==
  ShapeBuilt =>
    /\ Cardinality(BoundaryVertices) = 4 * teeth
    /\ Len(holes) = 1
    /\ holes[1].aX = 0 /\ holes[1].aY = 0
    /\ holes[1].xRadius = HoleRadius(radius)
    /\ holes[1].yRadius = HoleRadius(radius)

\* C2 (as claimed): every boundary vertex of the closed path, its start
\* point included, is at distance innerRadius or outerRadius from the origin.
C2_VerticesOnCircles ==
  ShapeBuilt =>
    \A p \in BoundaryVertices :
      OnCircle(p, InnerRadius(radius)) \/ OnCircle(p, OuterRadius(radius))

\* C3 (as claimed): once closed, the path starts from and returns to the
\* innerRadius point at angle 0, and its vertices are the emitted points only.
C3_ClosesAtSectorZero ==
  (pc \in {"hole", "done"} /\ teeth >= 3) =>
    /\ curves[1].v1 = PolarPoint(0, InnerRadius(radius))
    /\ curves[Len(curves)].v2 = PolarPoint(0, InnerRadius(radius))
    /\ BoundaryVertices \subseteq {curves[k].v2 : k \in 1..(4 * teeth)}

\* C4: outerRadius > innerRadius > holeRadius > 0, and the hole pushed onto
\* the shape has radius holeRadius, smaller than the distance of every
\* emitted tooth point.
C4_RadiiOrdered ==
  /\ OuterRadius(radius) > InnerRadius(radius)
  /\ InnerRadius(radius) > HoleRadius(radius)
  /\ HoleRadius(radius) > 0
  /\ \A h \in 1..Len(holes) :
       /\ holes[h].xRadius = HoleRadius(radius)
       /\ \A k \in 1..Len(curves) :
            (k <= 4 * teeth) =>
              Dist2(curves[k].v2) > holes[h].xRadius * holes[h].xRadius

C4_Witness == pc = "done" /\ radius = 100 /\ teeth = 12 /\ Len(holes) = 1

\* C9: the loop emits four points per sector, sector by sector: inner and
\* outer at the sector's angle, then outer and inner at its mid angle; the
\* angle of the emitted points never decreases.
C9_SectorInv ==
  /\ pc = "loop" => Len(curves) = 4 * i
  /\ Len(curves) >= 4 * i
  /\ \A k \in 0..(i - 1) :
       /\ Near(curves[4 * k + 1].v2,
               PolarPoint(SectorAngle(k, teeth), InnerRadius(radius)))
       /\ Near(curves[4 * k + 2].v2,
               PolarPoint(SectorAngle(k, teeth), OuterRadius(radius)))
       /\ Near(curves[4 * k + 3].v2,
               PolarPoint(SectorMid(k, teeth), OuterRadius(radius)))
       /\ Near(curves[4 * k + 4].v2,
               PolarPoint(SectorMid(k, teeth), InnerRadius(radius)))
       /\ OnCircle(curves[4 * k + 1].v2, InnerRadius(radius))
       /\ OnCircle(curves[4 * k + 2].v2, OuterRadius(radius))
       /\ OnCircle(curves[4 * k + 3].v2, OuterRadius(radius))
       /\ OnCircle(curves[4 * k + 4].v2, InnerRadius(radius))
       /\ \A m \in 2..4 : curves[4 * k + m].v1 = curves[4 * k + m - 1].v2
  /\ i > 0 => /\ angle = SectorAngle(i - 1, teeth)
              /\ Abs(angleHalf - SectorMid(i - 1, teeth)) <= 1
              /\ angle <= angleHalf

C9_SectorOrder ==
  /\ []C9_SectorInv
  /\ [][(pc = "loop" /\ i' = i + 1) =>
          (angle' >= angleHalf /\ angle' >= angle /\ angleHalf' >= angle')]_vars

C9_Witness == pc = "done" /\ teeth = 12 /\ radius = 100 /\ i = 12 /\ Len(curves) >= 48

----------------------------------------------------------------------------
\* Properties of the frame callbacks and of the catalog.

Axes == {"x", "y", "z"}

\* The solids whose callback adds speed * delta to a rotation component.
Rotating ==
  {s \in DOMAIN scene :
     /\ scene[s].kind \in {"GearGeom", "WormGeom"}
     /\ scene[s].axis \in Axes}

Mounted(s) == phase = "committed" /\ mesh[s] # Null

\* C5: the rotation on the motion axis is the initial angle plus the speed
\* times the sum of the deltas of the solid's frames, however they were
\* chunked, never wrapped; the Spur gears after two one-second frames are at
\* +2 rad and -2 rad.
C5_RotationIsSpeedTimesSum ==
  /\ \A s \in Rotating :
       Mounted(s) =>
         mesh[s].rotation[scene[s].axis] =
           scene[s].rotation[scene[s].axis] + scene[s].speed * sumDelta[s]
  /\ \A s \in {<<1, 1>>, <<1, 2>>} :
       (s \in Rotating /\ Mounted(s) /\ sumDelta[s] = 2000) =>
         mesh[s].rotation.y = (IF s = <<1, 1>> THEN 2000000 ELSE -2000000)

C5_Witness ==
  /\ phase = "committed"
  /\ pending = {}
  /\ <<1, 2>> \in DOMAIN scene
  /\ calls[<<1, 1>>] = 2 /\ sumDelta[<<1, 1>>] = 2000
  /\ calls[<<1, 2>>] = 2 /\ sumDelta[<<1, 2>>] = 2000
  /\ mesh[<<1, 1>>].rotation.y = 2000000
  /\ mesh[<<1, 2>>].rotation.y = -2000000
  /\ mesh[<<3, 1>>].rotation.z = 4000000

Racks == {s \in DOMAIN scene : scene[s].kind = "RackGeom"}

\* C6: after a callback run at elapsed time t the rack's position.x is
\* 1.5 * sin(t * speed), whatever it was before and however many frames ran;
\* it is 0 at t = 0.
C6_RackFollowsSine ==
  \A s \in Racks :
    Mounted(s) =>
      /\ (calls[s] > 0 /\ s \notin pending) =>
           mesh[s].position.x = 150 * Sin(clock * scene[s].speed)
      /\ (calls[s] > 0 /\ s \notin pending /\ clock = 0) => mesh[s].position.x = 0
      /\ calls[s] = 0 => mesh[s].position.x = scene[s].position.x
      /\ mesh[s].position.y = scene[s].position.y
      /\ mesh[s].position.z = scene[s].position.z
      /\ mesh[s].rotation = scene[s].rotation

C6_Witness ==
  \E s \in Racks :
    /\ Mounted(s)
    /\ s \notin pending
    /\ calls[s] = 2
    /\ clock = 2000
    /\ scene[s].speed = 1000
    /\ mesh[s].position.x = 150 * Sin(2000000)
    /\ mesh[s].position.x > 1360000
    /\ mesh[s].position.x < 1367000

\* What a whole frame makes of the meshes it started from.
FrameResult ==
  [s \in DOMAIN scene |->
     IF s \in Subscribers
     THEN FrameCallback(frameStart[s], scene[s], delta, clock)
     ELSE frameStart[s]]

\* C7: a callback changes the transform of its own solid only, and whatever
\* the order in which a frame's callbacks ran, the frame ends in the same
\* transforms.
C7_CallbacksIndependent ==
  /\ [][\A s \in DOMAIN scene :
          (s \in pending /\ pending' = pending \ {s}) =>
            \A o \in DOMAIN scene \ {s} : mesh'[o] = mesh[o]]_vars
  /\ [][(pending # {} /\ pending' = {}) => mesh' = FrameResult']_vars

C7_Witness ==
  /\ phase = "committed"
  /\ frames = 2
  /\ pending = {}
  /\ delta = 1000
  /\ Cardinality(Subscribers) = 13
  /\ mesh = FrameResult
  /\ mesh # frameStart

\* The solids of catalog entry e, and those with a frame callback.
Solids(e) == {s \in DOMAIN scene : s[1] = e}
Animated(e) == Solids(e) \cap Subscribers

\* The solid has been through a frame of positive delta.
Moved(s) == Mounted(s) /\ s \notin pending /\ calls[s] > 0 /\ sumDelta[s] > 0

\* C8 (as claimed): every entry's System has 2 to 3 solids, each of them
\* with a motion.
C8_TwoOrThreeAnimated ==
  phase = "committed" =>
    \A e \in 1..Len(gearSystems) :
      /\ Cardinality(Solids(e)) \in 2..3
      /\ Solids(e) \subseteq Subscribers

\* C8 (amended): every entry's System has 1 to 3 solids; Spur, Rack and
\* Pinion, Worm and Bevel have two solids with a motion each (Bevel a static
\* shaft besides), Helical has two solids and no motion, and each of the five
\* generic entries has a single gear with a motion.  A solid with a motion is
\* away from its initial transform after a frame of positive delta; a solid
\* without one never leaves it.
C8_OneToThreeSolids ==
  phase = "committed" =>
    /\ Len(gearSystems) = 10
    /\ \A e \in 1..Len(gearSystems) :
         /\ Cardinality(Solids(e)) \in 1..3
         /\ Cardinality(Solids(e)) = <<2, 2, 2, 3, 2, 1, 1, 1, 1, 1>>[e]
         /\ Cardinality(Animated(e)) = <<2, 2, 2, 2, 0, 1, 1, 1, 1, 1>>[e]
         /\ \A s \in Solids(e) :
              /\ (s \in Subscribers /\ Moved(s)) =>
                   mesh[s] # InitialTransform(scene[s])
              /\ s \notin Subscribers => mesh[s] = InitialTransform(scene[s])

C8_Witness ==
  /\ phase = "committed"
  /\ pending = {}
  /\ frames = 2
  /\ Cardinality(Solids(6)) = 1
  /\ Moved(<<6, 1>>)
  /\ mesh[<<6, 1>>] # InitialTransform(scene[<<6, 1>>])
  /\ mesh[<<5, 1>>] = InitialTransform(scene[<<5, 1>>])
  /\ mesh[<<4, 3>>] = InitialTransform(scene[<<4, 3>>])

Gears == {s \in DOMAIN scene : scene[s].kind = "GearGeom"}

\* C10: a GearGeom callback changes the rotation component its axis prop
\* names and nothing else; with an axis prop other than x, y, z, or with the
\* ref not yet set, it changes nothing.
C10_OnlyTheAxisComponent ==
  \A s \in Gears :
    /\ phase = "rendered" => (mesh[s] = Null /\ sumDelta[s] = 0)
    /\ Mounted(s) =>
         /\ mesh[s].position = scene[s].position
         /\ \A a \in Axes \ {scene[s].axis} :
              mesh[s].rotation[a] = scene[s].rotation[a]
         /\ scene[s].axis \notin Axes => mesh[s] = InitialTransform(scene[s])

C10_Witness ==
  \E s \in Gears :
    /\ Mounted(s)
    /\ scene[s] = GearGeom(Vector3(1050000, 0, 0), Vector3(0, 0, Pi \div 12), -1000, "y")
    /\ calls[s] = 2
    /\ sumDelta[s] = 2000
    /\ mesh[s].rotation = Vector3(0, -2000000, Pi \div 12)
    /\ mesh[s].position = Vector3(1050000, 0, 0)

====
